---- MODULE Spec2Model ----
(***************************************************************************)
(* Ordered reassembly of a multipart download                              *)
(* (aws-s3-transfer-manager, src/download/body.rs).                        *)
(*                                                                         *)
(* Body composes an UnorderedBody (the receiving end of a bounded tokio    *)
(* mpsc channel of Result<ChunkResponse, TransferError>) with a Sequencer  *)
(* (a BinaryHeap<Reverse<SequencedChunk>> plus the cursor next_seq).       *)
(*                                                                         *)
(* Values.  A channel item is either                                       *)
(*     [tag |-> "Ok",  seq |-> s, data |-> d]   a ChunkResponse, or        *)
(*     [tag |-> "Err", err |-> e]               a TransferError.           *)
(* data is Option<AggregatedBytes>: NoData is None, a positive number is   *)
(* Some(bytes); the number names the bytes.  object_meta is never read by  *)
(* this file and is left out.  seq and next_seq are u64; the model's       *)
(* bounds keep them far below 2^64, so the additions never wrap.           *)
(***************************************************************************)
EXTENDS Integers, Sequences, FiniteSets

\* ------------------------------------------------------------ bounds
\* Results the producers may put on the channel in one run.
MaxItems == 3
\* Largest sequence number a producer may stamp on a chunk.
MaxSeq == 2
\* Largest channel capacity tried (tokio requires a capacity >= 1).
MaxCap == 2
\* Largest number of Sender handles alive at construction.
MaxProducers == 2
\* Calls of next() the consumer makes in one run.
MaxCalls == 5
\* Largest number of parts the worker pool splits an object into.
MaxParts == 4
\* Largest number of workers (concurrent fetches) of the worker pool.
MaxWorkers == 4

\* Option<AggregatedBytes>: None (Some(bytes) is a positive number).
NoData == 0

\* Option<ChunkResponse> as a sequence number: None.
NoChunk == -1

VARIABLES
    kind,       \* what the consumer holds: "body", "unordered" (an UnorderedBody)
                \* or "sequencer" (the unit test's bare Sequencer)
    hasChan,    \* UnorderedBody.chunks is Some(receiver)
    cap,        \* the channel's capacity
    chan,       \* the results queued on the channel, oldest first
    senders,    \* Sender handles still alive; the channel is closed at 0
    chunks,     \* Sequencer.chunks, the heap's entries (in insertion order)
    next_seq,   \* Sequencer.next_seq
    pc,         \* where the consumer task is
    sent,       \* history: every result that entered the channel, in order
    returned,   \* history: what each finished call of next() returned
    parts,      \* worker pool: the number of parts of the object
    workers,    \* worker pool: the number of workers, each one fetch at a time
    dispatched, \* worker pool: parts handed to a worker so far (0..dispatched-1)
    calls,      \* unit test: the push and pop calls made on a bare Sequencer
    ret         \* unit test: the last Sequencer call and what it returned

vars ==
    <<kind, hasChan, cap, chan, senders, chunks, next_seq, pc, sent, returned,
      parts, workers, dispatched, calls, ret>>

\* The worker pool's variables, untouched by the channel and the consumer.
pool == <<parts, workers, dispatched>>

\* The unit test's variables, untouched by a Body and its producers.
test == <<calls, ret>>

\* ------------------------------------------------------------ values
OkItem(s, d) == [tag |-> "Ok", seq |-> s, data |-> d]

ErrItem(e) == [tag |-> "Err", err |-> e]

\* What Body::next hands back: Some(Ok(bytes)), Some(Err(e)) or None.
RetOk(d) == [tag |-> "Ok", val |-> d]

RetErr(e) == [tag |-> "Err", val |-> e]

RetNone == [tag |-> "None", val |-> 0]

\* What UnorderedBody::next hands back: Some(result) or None.
RetSome(item) == [tag |-> "Some", val |-> item]

\* A finished Sequencer call and its value; NoCall before the first.
Called(o, v) == [op |-> o, val |-> v]

NoCall == Called("none", 0)

\* ------------------------------------------------------------ Sequencer
\* A variant of SeqCmp with the operands the wrong way round.
SeqCmpFlipped(a, b) ==
    IF b.seq < a.seq THEN "Less"
    ELSE IF b.seq = a.seq THEN "Equal"
    ELSE "Greater"

\* impl Ord for SequencedChunk: chunks compare by seq alone.
SeqCmp(a, b) ==
    IF a.seq < b.seq THEN "Less"
    ELSE IF a.seq = b.seq THEN "Equal"
    ELSE "Greater"

\* A variant of ReverseCmp without the reversal: the heap is left max-first.
ReverseCmpForgotten(a, b) == SeqCmp(a, b)

\* cmp::Reverse<SequencedChunk>: the comparison turned around.
ReverseCmp(a, b) == SeqCmp(b, a)

\* BinaryHeap is a max-heap: peek/pop address a greatest entry.  Which of
\* several equal entries is on top is not specified by the heap, so all of
\* them are possible.
HeapTop(h) ==
    { i \in DOMAIN h : \A j \in DOMAIN h : ReverseCmp(h[j], h[i]) # "Greater" }

\* A variant of RemoveAt that leaves the entry in the heap (peek for pop).
RemoveAtKeep(h, i) == h

\* BinaryHeap::pop: the heap without the entry it returned.
RemoveAt(h, i) == SubSeq(h, 1, i - 1) \o SubSeq(h, i + 1, Len(h))

\* Sequencer::new
SequencerNew == [chunks |-> << >>, next_seq |-> 0]

\* Sequencer::push
Push(h, c) == Append(h, c)

\* Sequencer::peek: an index of the top entry, 0 for None.
Peek(h) == IF h = << >> THEN 0 ELSE CHOOSE i \in HeapTop(h) : TRUE

\* A variant of IsOrdered that only asks whether anything is buffered.
IsOrderedNonEmpty(h, n) == h # << >>

\* Sequencer::is_ordered
IsOrdered(h, n) ==
    LET next == Peek(h)
    IN  IF next = 0 THEN FALSE ELSE h[next].seq = n

\* A variant of Advance that leaves the cursor where it is.
AdvanceStuck(n) == n

\* Sequencer::advance
Advance(n) == n + 1

\* ------------------------------------------------------------ channel
\* The channel is closed once every Sender is dropped.
Closed == senders = 0

\* ------------------------------------------------------------ Init
Init ==
    /\ kind \in {"body", "unordered"}
    /\ hasChan \in BOOLEAN
    /\ cap \in 1..MaxCap
    /\ chan = << >>
    /\ senders \in (IF hasChan THEN 1..MaxProducers ELSE {0})
    /\ chunks = SequencerNew.chunks
    /\ next_seq = SequencerNew.next_seq
    /\ pc = "idle"
    /\ sent = << >>
    /\ returned = << >>
    /\ parts = 0
    /\ workers = 0
    /\ dispatched = 0
    /\ calls = << >>
    /\ ret = NoCall

\* ------------------------------------------------------------ producers
\* A producer sends one result; it waits while the channel is full.
Send(item) ==
    /\ hasChan
    /\ senders > 0
    /\ Len(sent) < MaxItems
    /\ Len(chan) < cap
    /\ chan' = Append(chan, item)
    /\ sent' = Append(sent, item)
    /\ UNCHANGED <<kind, hasChan, cap, senders, chunks, next_seq, pc, returned, pool, test>>

SendChunk ==
    \E s \in 0..MaxSeq : \E d \in {NoData, Len(sent) + 1} : Send(OkItem(s, d))

SendError == Send(ErrItem(Len(sent) + 1))

\* A producer finishes and drops its Sender.
DropSender ==
    /\ senders > 0
    /\ senders' = senders - 1
    /\ UNCHANGED <<kind, hasChan, cap, chan, chunks, next_seq, pc, sent, returned, pool, test>>

\* ------------------------------------------------------------ UnorderedBody
\* A variant of RecvReady that waits on the channel even when there is none.
RecvReadyNeedsChannel == hasChan /\ (chan # << >> \/ Closed)

\* A variant of RecvReady that never waits (try_recv instead of recv).
RecvReadyNoWait == TRUE

\* A variant of RecvReady that resolves only once every Sender is gone.
RecvReadyWhenClosed == ~hasChan \/ Closed

\* UnorderedBody::next suspends at ch.recv().await while the channel is
\* empty and a Sender is alive; with no channel it never suspends.
RecvReady == ~hasChan \/ chan # << >> \/ Closed

\* The value UnorderedBody::next resolves to: None with no channel, else what
\* recv() yields: the oldest queued result, or None once closed and drained.
RecvResult ==
    IF hasChan /\ chan # << >> THEN RetSome(Head(chan)) ELSE RetNone

\* A variant of RecvChan that leaves the received result on the queue.
RecvChanKeep == chan

\* The queue after that receive.
RecvChan == IF hasChan /\ chan # << >> THEN Tail(chan) ELSE chan

\* The consumer calls UnorderedBody::next directly.
UnorderedCall ==
    /\ kind = "unordered"
    /\ pc = "idle"
    /\ Len(returned) < MaxCalls
    /\ pc' = "urecv"
    /\ UNCHANGED <<kind, hasChan, cap, chan, senders, chunks, next_seq, sent, returned, pool, test>>

\* ... and the call resolves.
UnorderedRecv ==
    /\ pc = "urecv"
    /\ RecvReady
    /\ returned' = Append(returned, RecvResult)
    /\ chan' = RecvChan
    /\ pc' = "idle"
    /\ UNCHANGED <<kind, hasChan, cap, senders, chunks, next_seq, sent, pool, test>>

\* ------------------------------------------------------------ Body::next
\* A variant of BodyCall that treats the stream as finished once an error
\* was returned: later calls answer None without looking at the channel.
BodyCallFused ==
    /\ kind = "body"
    /\ pc = "idle"
    /\ Len(returned) < MaxCalls
    /\ IF \E i \in DOMAIN returned : returned[i].tag = "Err"
       THEN /\ returned' = Append(returned, RetNone)
            /\ pc' = "idle"
       ELSE /\ pc' = "loop"
            /\ UNCHANGED returned
    /\ UNCHANGED <<kind, hasChan, cap, chan, senders, chunks, next_seq, sent, pool, test>>

\* The consumer calls Body::next and enters the loop.
BodyCall ==
    /\ kind = "body"
    /\ pc = "idle"
    /\ Len(returned) < MaxCalls
    /\ pc' = "loop"
    /\ UNCHANGED <<kind, hasChan, cap, chan, senders, chunks, next_seq, sent, returned, pool, test>>

\* A variant of BodyLoop that goes to the channel before looking at the buffer.
BodyLoopAlwaysRecv ==
    /\ pc = "loop"
    /\ pc' = "recv"
    /\ UNCHANGED <<kind, hasChan, cap, chan, senders, chunks, next_seq, sent, returned, pool, test>>

\* Top of the loop: if self.sequencer.is_ordered() { break; }
BodyLoop ==
    /\ pc = "loop"
    /\ pc' = (IF IsOrdered(chunks, next_seq) THEN "pop" ELSE "recv")
    /\ UNCHANGED <<kind, hasChan, cap, chan, senders, chunks, next_seq, sent, returned, pool, test>>

\* A variant of OkArm that drops a chunk whose seq is below the cursor.
OkArmDropStale(chunk) ==
    /\ chunks' = (IF chunk.seq < next_seq THEN chunks ELSE Push(chunks, chunk))
    /\ pc' = "loop"
    /\ UNCHANGED <<next_seq, returned>>

\* Ok(chunk) => self.sequencer.push(chunk), and around the loop again.
OkArm(chunk) ==
    /\ chunks' = Push(chunks, chunk)
    /\ pc' = "loop"
    /\ UNCHANGED <<next_seq, returned>>

\* A variant of ErrArm that throws the buffered chunks away with the error.
ErrArmDiscard(err) ==
    /\ returned' = Append(returned, RetErr(err))
    /\ pc' = "idle"
    /\ chunks' = << >>
    /\ UNCHANGED next_seq

\* A variant of ErrArm that swallows the error and keeps waiting.
ErrArmSwallow(err) ==
    /\ pc' = "loop"
    /\ UNCHANGED <<chunks, next_seq, returned>>

\* Err(err) => return Some(Err(err))
ErrArm(err) ==
    /\ returned' = Append(returned, RetErr(err))
    /\ pc' = "idle"
    /\ UNCHANGED <<chunks, next_seq>>

\* A variant of NoneArm that ends the stream when the channel ends.
NoneArmEnd ==
    /\ returned' = Append(returned, RetNone)
    /\ pc' = "idle"
    /\ UNCHANGED <<chunks, next_seq>>

\* chunk.is_none() => break
NoneArm ==
    /\ pc' = "pop"
    /\ UNCHANGED <<chunks, next_seq, returned>>

\* let chunk = self.inner.next().await, and the three ways on from it.
BodyRecv ==
    /\ pc = "recv"
    /\ RecvReady
    /\ chan' = RecvChan
    /\ LET r == RecvResult
       IN  IF r.tag = "None" THEN NoneArm
           ELSE IF r.val.tag = "Ok" THEN OkArm(r.val)
           ELSE ErrArm(r.val.err)
    /\ UNCHANGED <<kind, hasChan, cap, senders, sent, pool, test>>

\* Sequencer::pop took entry i: r.data.expect("chunk data") panics on a chunk
\* without data, after the entry has left the heap and before advance();
\* otherwise advance() runs and the bytes are returned.
Release(i) ==
    /\ chunks' = RemoveAt(chunks, i)
    /\ IF chunks[i].data = NoData
       THEN /\ pc' = "panicked"
            /\ UNCHANGED <<next_seq, returned>>
       ELSE /\ next_seq' = Advance(next_seq)
            /\ returned' = Append(returned, RetOk(chunks[i].data))
            /\ pc' = "idle"

\* After the loop: pop, advance if something was popped, return.
BodyPop ==
    /\ pc = "pop"
    /\ IF chunks = << >>
       THEN /\ returned' = Append(returned, RetNone)
            /\ pc' = "idle"
            /\ UNCHANGED <<chunks, next_seq>>
       ELSE \E i \in HeapTop(chunks) : Release(i)
    /\ UNCHANGED <<kind, hasChan, cap, chan, senders, sent, pool, test>>

Next ==
    \/ SendChunk
    \/ SendError
    \/ DropSender
    \/ UnorderedCall
    \/ UnorderedRecv
    \/ BodyCall
    \/ BodyLoop
    \/ BodyRecv
    \/ BodyPop

Spec == Init /\ [][Next]_vars

\* A Body and its producers alone, with the scheduling the runtime provides:
\* the consumer task keeps calling next() and is polled whenever it can run,
\* and every producer eventually finishes and drops its Sender.
BodyInit == Init /\ kind = "body"

BodyNext ==
    \/ SendChunk
    \/ SendError
    \/ DropSender
    \/ BodyCall
    \/ BodyLoop
    \/ BodyRecv
    \/ BodyPop

FairSpec ==
    /\ BodyInit
    /\ [][BodyNext]_vars
    /\ WF_vars(BodyCall)
    /\ WF_vars(BodyLoop)
    /\ WF_vars(BodyRecv)
    /\ WF_vars(BodyPop)
    /\ WF_vars(DropSender)

\* ------------------------------------------------------------ worker pool
\* The external worker pool of the download: it numbers the parts of the
\* object 0..parts-1, hands them out in that order to its workers, each of
\* which fetches one part at a time and sends the chunk on the channel when
\* the fetch completes; fetches complete in any order.  Every worker owns a
\* Sender and drops it when no part is left for it.  This pool never fails
\* a fetch.
Payload(s) == s + 1

\* The parts being fetched: handed out and not yet on the channel.
InFlight ==
    { s \in 0..(dispatched - 1) : \A i \in DOMAIN sent : sent[i].seq # s }

PoolInit ==
    /\ kind = "body"
    /\ hasChan = TRUE
    /\ cap \in 1..MaxCap
    /\ chan = << >>
    /\ parts \in 0..MaxParts
    /\ workers \in 1..MaxWorkers
    /\ senders = workers
    /\ dispatched = 0
    /\ chunks = SequencerNew.chunks
    /\ next_seq = SequencerNew.next_seq
    /\ pc = "idle"
    /\ sent = << >>
    /\ returned = << >>
    /\ calls = << >>
    /\ ret = NoCall

\* An idle worker takes the next part and starts fetching it.
Dispatch ==
    /\ dispatched < parts
    /\ Cardinality(InFlight) < senders
    /\ dispatched' = dispatched + 1
    /\ UNCHANGED <<kind, hasChan, cap, chan, senders, chunks, next_seq, pc, sent,
                   returned, parts, workers, test>>

\* A fetch completes and its worker sends the chunk (waiting for room).
Complete ==
    \E s \in InFlight :
        /\ Len(chan) < cap
        /\ chan' = Append(chan, OkItem(s, Payload(s)))
        /\ sent' = Append(sent, OkItem(s, Payload(s)))
        /\ UNCHANGED <<kind, hasChan, cap, senders, chunks, next_seq, pc, returned, pool, test>>

\* An idle worker finds no part left and ends, dropping its Sender.
WorkerDone ==
    /\ dispatched = parts
    /\ Cardinality(InFlight) < senders
    /\ senders' = senders - 1
    /\ UNCHANGED <<kind, hasChan, cap, chan, chunks, next_seq, pc, sent, returned, pool, test>>

PoolNext ==
    \/ Dispatch
    \/ Complete
    \/ WorkerDone
    \/ BodyCall
    \/ BodyLoop
    \/ BodyRecv
    \/ BodyPop

PoolSpec == PoolInit /\ [][PoolNext]_vars

\* The pool and the consumer under the runtime's scheduling: every worker
\* and the consumer task are polled whenever they can run, and the consumer
\* keeps calling next().
FairPoolSpec ==
    /\ PoolInit
    /\ [][PoolNext]_vars
    /\ WF_vars(Dispatch)
    /\ WF_vars(Complete)
    /\ WF_vars(WorkerDone)
    /\ WF_vars(BodyCall)
    /\ WF_vars(BodyLoop)
    /\ WF_vars(BodyRecv)
    /\ WF_vars(BodyPop)

\* ------------------------------------------------------------ unit test
\* A Sequencer on its own, driven as mod tests drives it: chunks without
\* data are pushed (chunk_resp(seq, None)) and push, pop, peek, is_ordered
\* and advance are called in any order.
SeqInit ==
    /\ kind = "sequencer"
    /\ hasChan = FALSE
    /\ cap = 1
    /\ chan = << >>
    /\ senders = 0
    /\ chunks = SequencerNew.chunks
    /\ next_seq = SequencerNew.next_seq
    /\ pc = "idle"
    /\ sent = << >>
    /\ returned = << >>
    /\ parts = 0
    /\ workers = 0
    /\ dispatched = 0
    /\ calls = << >>
    /\ ret = NoCall

Pushes == SelectSeq(calls, LAMBDA c : c.op = "push")

Pops == SelectSeq(calls, LAMBDA c : c.op = "pop")

\* sequencer.push(chunk_resp(s, None))
SeqPush ==
    \E s \in 0..MaxSeq :
        /\ Len(Pushes) < MaxItems
        /\ chunks' = Push(chunks, OkItem(s, NoData))
        /\ calls' = Append(calls, Called("push", s))
        /\ ret' = Called("push", s)
        /\ UNCHANGED <<kind, hasChan, cap, chan, senders, next_seq, pc, sent, returned, pool>>

\* A variant of SeqPop that hands out a chunk only when it is the expected one.
SeqPopChecked ==
    /\ Len(Pops) < MaxItems
    /\ IF ~IsOrdered(chunks, next_seq)
       THEN /\ calls' = Append(calls, Called("pop", NoChunk))
            /\ ret' = Called("pop", NoChunk)
            /\ UNCHANGED chunks
       ELSE \E i \in HeapTop(chunks) :
               /\ chunks' = RemoveAt(chunks, i)
               /\ calls' = Append(calls, Called("pop", chunks[i].seq))
               /\ ret' = Called("pop", chunks[i].seq)
    /\ UNCHANGED <<kind, hasChan, cap, chan, senders, next_seq, pc, sent, returned, pool>>

\* sequencer.pop(): the seq of the chunk returned, NoChunk for None.
SeqPop ==
    /\ Len(Pops) < MaxItems
    /\ IF chunks = << >>
       THEN /\ calls' = Append(calls, Called("pop", NoChunk))
            /\ ret' = Called("pop", NoChunk)
            /\ UNCHANGED chunks
       ELSE \E i \in HeapTop(chunks) :
               /\ chunks' = RemoveAt(chunks, i)
               /\ calls' = Append(calls, Called("pop", chunks[i].seq))
               /\ ret' = Called("pop", chunks[i].seq)
    /\ UNCHANGED <<kind, hasChan, cap, chan, senders, next_seq, pc, sent, returned, pool>>

\* sequencer.peek(): the seq of the chunk referred to, NoChunk for None.
SeqPeek ==
    /\ ret' = Called("peek", IF Peek(chunks) = 0 THEN NoChunk ELSE chunks[Peek(chunks)].seq)
    /\ UNCHANGED <<kind, hasChan, cap, chan, senders, chunks, next_seq, pc, sent, returned,
                   pool, calls>>

\* sequencer.is_ordered()
SeqIsOrdered ==
    /\ ret' = Called("is_ordered", IsOrdered(chunks, next_seq))
    /\ UNCHANGED <<kind, hasChan, cap, chan, senders, chunks, next_seq, pc, sent, returned,
                   pool, calls>>

\* sequencer.advance()
SeqAdvance ==
    /\ next_seq <= MaxSeq
    /\ next_seq' = Advance(next_seq)
    /\ ret' = Called("advance", 0)
    /\ UNCHANGED <<kind, hasChan, cap, chan, senders, chunks, pc, sent, returned, pool, calls>>

SeqNext ==
    \/ SeqPush
    \/ SeqPop
    \/ SeqPeek
    \/ SeqIsOrdered
    \/ SeqAdvance

SeqSpec == SeqInit /\ [][SeqNext]_vars

\* ------------------------------------------------------------ histories
\* The results the consumer has taken off the channel so far.
Received == SubSeq(sent, 1, Len(sent) - Len(chan))

IsErr(x) == x.tag = "Err"

IsOk(x) == x.tag = "Ok"

IsNone(x) == x.tag = "None"

Last(q) == q[Len(q)]

\* The error values of a sequence of channel items, in order.
ErrsSent(q) == LET e == SelectSeq(q, IsErr) IN [i \in DOMAIN e |-> e[i].err]

\* The error values of a sequence of Body::next results, in order.
ErrsReturned(q) == LET e == SelectSeq(q, IsErr) IN [i \in DOMAIN e |-> e[i].val]

\* The consumer task takes the head of the channel in this step.
Receives == chan # << >> /\ chan' = Tail(chan)

\* ------------------------------------------------------------ claims

\* The sequence numbers of the chunks that entered the channel, in order.
ArrivalOrder == [i \in DOMAIN sent |-> sent[i].seq]

\* C1: the pool's chunks 0..parts-1 arrive in any order, the channel then
\* closes, no error is sent: the i-th call of Body::next returns the bytes
\* of chunk i-1, for i up to parts, and every call after that returns None.
C1_ChunksInSeqOrderThenNone ==
    \A i \in DOMAIN returned :
        returned[i] = (IF i <= parts THEN RetOk(Payload(i - 1)) ELSE RetNone)

\* C1 witness: four chunks arrived in the order 2, 0, 3, 1 and five calls
\* have returned.
C1_Witness ==
    /\ parts = 4
    /\ ArrivalOrder = <<2, 0, 3, 1>>
    /\ Len(returned) = 5
    /\ pc = "idle"

\* C8 as stated: the chunks resident in the Sequencer never exceed the
\* number of workers minus one.
C8_ResidentBelowWorkers == Len(chunks) <= workers - 1

\* C8, amended: the chunks resident in the Sequencer never exceed the number
\* of parts the Body has not yet returned, parts - next_seq, whatever the
\* number of workers.
C8_ResidentAtMostUnreturnedParts == Len(chunks) <= parts - next_seq

\* C8 witness: two workers, four parts, and three chunks resident while the
\* Body waits for chunk 0.
C8_Witness ==
    /\ workers = 2
    /\ parts = 4
    /\ next_seq = 0
    /\ Len(chunks) = 3
    /\ pc = "recv"

\* The smallest sequence number held in a heap.
MinSeq(h) ==
    CHOOSE m \in {h[i].seq : i \in DOMAIN h} : \A i \in DOMAIN h : m <= h[i].seq

\* The unit test pushed first and popped afterwards, and what it pushed is
\* a permutation of 0..N-1.
PushedPermutationThenPopped ==
    /\ calls = Pushes \o Pops
    /\ {Pushes[i].val : i \in DOMAIN Pushes} = 0..(Len(Pushes) - 1)

\* C9: after any permutation of N chunks with seq 0..N-1 is pushed into a
\* fresh Sequencer, the j-th pop returns seq j-1 for j = 1..N, whatever
\* advance() calls are made in between, and after N pops the Sequencer is
\* empty (a further pop returns None).
C9_PopsInSeqOrder ==
    (kind = "sequencer" /\ PushedPermutationThenPopped)
        => /\ \A j \in DOMAIN Pops :
                Pops[j].val = (IF j <= Len(Pushes) THEN j - 1 ELSE NoChunk)
           /\ Len(chunks) = (IF Len(Pops) <= Len(Pushes) THEN Len(Pushes) - Len(Pops) ELSE 0)

\* C9 witness: 2, 0, 1 were pushed, three rounds of pop and advance were
\* made, the pops returned 0, 1, 2 and nothing is left.
C9_Witness ==
    /\ kind = "sequencer"
    /\ calls = <<Called("push", 2), Called("push", 0), Called("push", 1),
                 Called("pop", 0), Called("pop", 1), Called("pop", 2)>>
    /\ ret.op = "advance"
    /\ next_seq = 3
    /\ chunks = << >>

\* C10: is_ordered is true exactly when the buffer is non-empty and the
\* smallest seq it holds equals next_seq; on a fresh Sequencer it is false
\* after push 1, push 2 and true after push 0 follows, and pop then returns
\* seq 0; a call of is_ordered or peek returns that value (peek: the
\* smallest seq) and changes neither the buffer nor next_seq.
C10_IsOrderedIffMinIsNext ==
    /\ [](kind = "sequencer" =>
            /\ IsOrdered(chunks, next_seq) <=> (chunks # << >> /\ MinSeq(chunks) = next_seq)
            /\ (calls = << >>) => ~IsOrdered(chunks, next_seq)
            /\ (calls = <<Called("push", 1), Called("push", 2)>> /\ next_seq = 0)
                  => ~IsOrdered(chunks, next_seq)
            /\ (calls = <<Called("push", 1), Called("push", 2), Called("push", 0)>> /\ next_seq = 0)
                  => IsOrdered(chunks, next_seq)
            /\ (/\ Len(calls) >= 4
                /\ SubSeq(calls, 1, 3) = <<Called("push", 1), Called("push", 2), Called("push", 0)>>
                /\ calls[4].op = "pop")
                  => calls[4].val = 0)
    /\ [][ /\ (kind = "sequencer" /\ ret'.op = "is_ordered")
              => /\ ret'.val = (chunks # << >> /\ MinSeq(chunks) = next_seq)
                 /\ UNCHANGED <<chunks, next_seq>>
           /\ (kind = "sequencer" /\ ret'.op = "peek")
              => /\ ret'.val = (IF chunks = << >> THEN NoChunk ELSE MinSeq(chunks))
                 /\ UNCHANGED <<chunks, next_seq>> ]_vars

\* C10 witness: push 1, push 2, push 0, then is_ordered answered true with
\* three chunks buffered and the cursor at 0.
C10_Witness ==
    /\ kind = "sequencer"
    /\ calls = <<Called("push", 1), Called("push", 2), Called("push", 0)>>
    /\ next_seq = 0
    /\ ret.op = "is_ordered"
    /\ ret.val = TRUE
    /\ Len(chunks) = 3

\* C2: when a call of Body::next receives an error from the channel, it
\* returns that error and leaves the reorder buffer and the cursor as they
\* were: no buffered chunk is removed or released, next_seq is unchanged.
C2_ErrorLeavesSequencer ==
    [][ (kind = "body" /\ pc = "recv" /\ Receives /\ IsErr(Head(chan)))
        => /\ returned' = Append(returned, RetErr(Head(chan).err))
           /\ pc' = "idle"
           /\ chunks' = chunks
           /\ next_seq' = next_seq ]_vars

\* C2 witness: an error has been returned while chunks sit in the buffer.
C2_Witness ==
    /\ kind = "body"
    /\ pc = "idle"
    /\ returned # << >>
    /\ IsErr(Last(returned))
    /\ Len(chunks) >= 2

\* C3: errors reach the consumer in arrival order and at once.  A call that
\* finds the buffer not ready goes to the channel without releasing
\* anything; receiving an error there ends the call with that error and no
\* chunk released; so the errors returned so far are always exactly the
\* errors received so far, in the order they entered the channel.
C3_ErrorsImmediateInArrivalOrder ==
    /\ [](kind = "body" => ErrsReturned(returned) = ErrsSent(Received))
    /\ [][ /\ (kind = "body" /\ pc = "loop" /\ ~IsOrdered(chunks, next_seq) /\ pc' # pc)
              => (pc' = "recv" /\ chunks' = chunks /\ returned' = returned)
           /\ (kind = "body" /\ pc = "recv" /\ Receives /\ IsErr(Head(chan)))
              => (returned' = Append(returned, RetErr(Head(chan).err))
                  /\ chunks' = chunks) ]_vars

\* C3 witness: two errors were returned, in arrival order, while a chunk
\* with a sequence number above the cursor is buffered and the chunk the
\* cursor waits for never arrived.
C3_Witness ==
    /\ kind = "body"
    /\ pc = "idle"
    /\ Len(ErrsReturned(returned)) = 2
    /\ chunks # << >>
    /\ \A i \in DOMAIN chunks : chunks[i].seq > next_seq
    /\ \A i \in DOMAIN sent : IsOk(sent[i]) => sent[i].seq # next_seq
    /\ \A i \in DOMAIN returned : IsErr(returned[i])

\* Some call of Body::next has returned an error.
ErrorReturned == \E i \in DOMAIN returned : IsErr(returned[i])

\* The chunk carrying bytes d sits in the reorder buffer.
Buffered(d) == \E i \in DOMAIN chunks : chunks[i].data = d

\* Some call of Body::next has returned bytes d.
Released(d) == \E i \in DOMAIN returned : returned[i] = RetOk(d)

\* C4: an error returned by Body::next does not close the stream.  With a
\* consumer that keeps calling and producers that eventually finish, every
\* chunk buffered when an error has been returned is returned by a later
\* call (the one exception being a call that panics on a chunk without
\* data, which ends the consumer task).
C4_BufferedChunksReleasedAfterError ==
    \A d \in 1..MaxItems :
        (kind = "body" /\ ErrorReturned /\ Buffered(d))
            ~> (Released(d) \/ pc = "panicked")

\* C4 witness: a chunk that entered the channel before an error was
\* returned by a call made after the error was returned, and a chunk sent
\* after the error was received and returned too.
C4_Witness ==
    /\ kind = "body"
    /\ Len(returned) = 3
    /\ IsErr(returned[1])
    /\ IsOk(returned[2]) /\ returned[2].val < returned[1].val
    /\ IsOk(returned[3]) /\ returned[3].val > returned[1].val

\* C5: a Body built by Body::empty() returns None on the first call of next
\* and on every later call, never suspends at the receive, and its buffer
\* stays empty with next_seq 0.
C5_EmptyBodyAlwaysNone ==
    (kind = "body" /\ ~hasChan)
        => /\ \A i \in DOMAIN returned : returned[i] = RetNone
           /\ chunks = << >>
           /\ next_seq = 0
           /\ pc \in {"idle", "loop", "recv", "pop"}
           /\ (pc = "recv" => ENABLED BodyRecv)
           /\ (pc = "pop" => ENABLED BodyPop)

\* C5 witness: an empty Body has answered two calls.
C5_Witness ==
    /\ kind = "body"
    /\ ~hasChan
    /\ pc = "idle"
    /\ Len(returned) >= 2

\* C6: UnorderedBody::next on an instance with a channel returns None if and
\* only if the channel is closed and drained when the call resolves; after
\* a None every later call returns None; with no channel it returns None.
C6_UnorderedNoneIffClosedAndDrained ==
    [][ (kind = "unordered" /\ pc = "urecv" /\ pc' = "idle")
        => /\ Len(returned') = Len(returned) + 1
           /\ hasChan => (IsNone(Last(returned')) <=> (chan = << >> /\ senders = 0))
           /\ ~hasChan => IsNone(Last(returned'))
           /\ (returned # << >> /\ IsNone(Last(returned))) => IsNone(Last(returned')) ]_vars

\* C6 witness: an UnorderedBody with a channel delivered a result, then
\* None, then None again.
C6_Witness ==
    /\ kind = "unordered"
    /\ hasChan
    /\ Len(returned) >= 3
    /\ ~IsNone(returned[1])
    /\ IsNone(returned[Len(returned) - 1])
    /\ IsNone(Last(returned))

\* C7: the results returned by successive calls of UnorderedBody::next are
\* exactly the results received from the channel, in the order they entered
\* it, unchanged; Nones come only after them.
C7_UnorderedPassThrough ==
    kind = "unordered"
        => LET got == SelectSeq(returned, LAMBDA r : ~IsNone(r))
           IN  /\ Len(got) = Len(Received)
               /\ \A i \in DOMAIN got : got[i] = RetSome(sent[i])
               /\ \A i \in DOMAIN returned : i <= Len(got) => ~IsNone(returned[i])

\* C7 witness: an error was passed through and a chunk after it.
C7_Witness ==
    /\ kind = "unordered"
    /\ Len(returned) >= 3
    /\ returned[1].tag = "Some" /\ IsOk(returned[1].val)
    /\ returned[2].tag = "Some" /\ IsErr(returned[2].val)
    /\ returned[3].tag = "Some" /\ IsOk(returned[3].val)
    /\ returned[3].val.seq < returned[1].val.seq

\* The buffer h without its entry i.
Without(h, i) == SubSeq(h, 1, i - 1) \o SubSeq(h, i + 1, Len(h))

\* The channel is closed and drained, chunks are buffered and the one the
\* cursor expects is not among them: a sequence number was never produced.
ClosedWithGap ==
    /\ kind = "body"
    /\ hasChan
    /\ chan = << >>
    /\ senders = 0
    /\ chunks # << >>
    /\ MinSeq(chunks) > next_seq

\* The sequence number of the chunk whose bytes d a call returned (under
\* Spec the bytes of a chunk are named by its place in the channel history).
SeqOfData(d) == sent[d].seq

\* The sequence numbers of the chunks returned so far, in order.
ReturnedSeqs ==
    LET ok == SelectSeq(returned, IsOk) IN [i \in DOMAIN ok |-> SeqOfData(ok[i].val)]

\* C11: when the channel is closed and drained and the smallest buffered
\* seq is above next_seq, a call of Body::next goes through the receive
\* (which yields None) to the pop without returning an error or None, pops
\* a chunk of the smallest seq and, the chunk carrying data, returns its
\* bytes and adds exactly 1 to next_seq; every call pops the smallest, so
\* the rest follows in ascending order, and None comes only once the buffer
\* is empty.
C11_GapAtCloseIsSkipped ==
    /\ []((kind = "body" /\ returned # << >> /\ IsNone(Last(returned))) => chunks = << >>)
    /\ [][ /\ (ClosedWithGap /\ pc = "loop")
              => (pc' = "recv" /\ UNCHANGED <<chunks, next_seq, returned>>)
           /\ (ClosedWithGap /\ pc = "recv")
              => (pc' = "pop" /\ UNCHANGED <<chunks, next_seq, returned>>)
           /\ (ClosedWithGap /\ pc = "pop")
              => \E i \in DOMAIN chunks :
                    /\ chunks[i].seq = MinSeq(chunks)
                    /\ chunks' = Without(chunks, i)
                    /\ chunks[i].data # NoData
                          => /\ returned' = Append(returned, RetOk(chunks[i].data))
                             /\ next_seq' = next_seq + 1
                             /\ pc' = "idle" ]_vars

\* C11 witness: chunks 2 and 1 arrived, chunk 0 never did, the channel
\* closed; the calls returned chunk 1, then chunk 2, then None, and next_seq
\* is 2.
C11_Witness ==
    /\ kind = "body"
    /\ Len(sent) = 2
    /\ IsOk(sent[1]) /\ sent[1].seq = 2
    /\ IsOk(sent[2]) /\ sent[2].seq = 1
    /\ senders = 0
    /\ Len(returned) = 3
    /\ returned[1] = RetOk(2)
    /\ returned[2] = RetOk(1)
    /\ IsNone(returned[3])
    /\ next_seq = 2

\* C12: a call of Body::next that returns a chunk whose seq differs from
\* next_seq has seen the channel closed and drained; while a producer is
\* alive or a result is queued, the chunk a call returns has seq = next_seq.
\* Errors, missing and duplicate sequence numbers are all allowed here.
C12_ReleaseOnlyWhenReadyOrDrained ==
    [][ (kind = "body" /\ pc = "pop" /\ Len(returned') = Len(returned) + 1
            /\ IsOk(Last(returned')))
        => \/ SeqOfData(Last(returned').val) = next_seq
           \/ (chan = << >> /\ senders = 0) ]_vars

\* C12 witness: after an error, with two chunks of the same seq sent and a
\* producer still alive, a call returned one of them.
C12_Witness ==
    /\ kind = "body"
    /\ senders > 0
    /\ Len(sent) = 3
    /\ IsErr(sent[1])
    /\ IsOk(sent[2]) /\ IsOk(sent[3]) /\ sent[2].seq = sent[3].seq
    /\ Len(returned) = 2
    /\ IsErr(returned[1])
    /\ IsOk(returned[2])
    /\ chunks # << >>

\* C13: next_seq is the number of chunks the Body has returned so far: it
\* starts at 0, a step either leaves it or adds exactly 1 to it, it grows
\* exactly in the step that returns a chunk, and a step that returns an
\* error or None leaves it.
C13_NextSeqCountsReturnedChunks ==
    /\ [](kind = "body" => next_seq = Len(SelectSeq(returned, IsOk)))
    /\ [][ kind = "body"
           => /\ next_seq' = next_seq \/ next_seq' = next_seq + 1
              /\ (next_seq' # next_seq)
                    <=> (Len(returned') = Len(returned) + 1 /\ IsOk(Last(returned')))
              /\ (returned' # returned /\ ~IsOk(Last(returned')))
                    => next_seq' = next_seq ]_vars

\* C13 witness: a chunk, an error, a chunk and None were returned and
\* next_seq is 2.
C13_Witness ==
    /\ kind = "body"
    /\ Len(returned) = 4
    /\ IsOk(returned[1])
    /\ IsErr(returned[2])
    /\ IsOk(returned[3])
    /\ IsNone(returned[4])
    /\ next_seq = 2

\* C14: Sequencer::pop removes and returns an entry of the smallest seq,
\* whatever next_seq is, returns None on an empty buffer and leaves next_seq
\* alone; Sequencer::advance adds exactly 1 to next_seq, whatever the buffer
\* holds (also when it is empty), and leaves the buffer alone; advance can
\* be called in every state of the Sequencer.
C14_PopAndAdvanceUnconditional ==
    /\ []((kind = "sequencer" /\ next_seq <= MaxSeq) => ENABLED SeqAdvance)
    /\ [][ /\ (kind = "sequencer" /\ calls' # calls /\ Last(calls').op = "pop")
              => /\ next_seq' = next_seq
                 /\ IF chunks = << >>
                    THEN Last(calls').val = NoChunk /\ chunks' = chunks
                    ELSE /\ Last(calls').val = MinSeq(chunks)
                         /\ \E i \in DOMAIN chunks :
                               /\ chunks[i].seq = MinSeq(chunks)
                               /\ chunks' = Without(chunks, i)
           /\ (kind = "sequencer" /\ ret'.op = "advance")
              => /\ next_seq' = next_seq + 1
                 /\ chunks' = chunks
                 /\ calls' = calls ]_vars

\* C14 witness: pop on the empty buffer returned None, push 2, pop returned
\* seq 2 while next_seq was 0, and advance then ran on the empty buffer.
C14_Witness ==
    /\ kind = "sequencer"
    /\ calls = <<Called("pop", NoChunk), Called("push", 2), Called("pop", 2)>>
    /\ ret.op = "advance"
    /\ next_seq = 1
    /\ chunks = << >>

\* C15: the consumer touches the channel only at the receive, and is at the
\* receive only while the buffer is not ready.  With the buffer ready the
\* loop breaks at once and the pop releases the chunk of seq next_seq; these
\* steps wait for nothing and leave the channel's queue as it is, so the
\* call returns also with the channel empty and open.
C15_ReadyBufferBypassesChannel ==
    /\ []((kind = "body" /\ pc = "recv") => ~IsOrdered(chunks, next_seq))
    /\ []((kind = "body" /\ pc = "loop") => ENABLED BodyLoop)
    /\ []((kind = "body" /\ pc = "pop") => ENABLED BodyPop)
    /\ [][ /\ (kind = "body" /\ pc' # pc /\ pc # "recv") => chan' = chan
           /\ (kind = "body" /\ pc = "loop" /\ pc' # pc /\ IsOrdered(chunks, next_seq))
              => (pc' = "pop" /\ UNCHANGED <<chunks, next_seq, returned>>)
           /\ (kind = "body" /\ pc = "pop" /\ pc' # pc /\ IsOrdered(chunks, next_seq))
              => \E i \in DOMAIN chunks :
                    /\ chunks[i].seq = next_seq
                    /\ chunks' = Without(chunks, i)
                    /\ chunks[i].data # NoData
                          => returned' = Append(returned, RetOk(chunks[i].data)) ]_vars

\* C15 witness: chunk 1 arrived before chunk 0, the first call received
\* both and returned chunk 0; the second call found chunk 1 ready and
\* returned it with the channel empty and a producer still alive.
C15_Witness ==
    /\ kind = "body"
    /\ pc = "idle"
    /\ senders > 0
    /\ chan = << >>
    /\ Len(sent) = 2
    /\ IsOk(sent[1]) /\ sent[1].seq = 1
    /\ IsOk(sent[2]) /\ sent[2].seq = 0
    /\ Len(returned) = 2
    /\ returned[1] = RetOk(2)
    /\ returned[2] = RetOk(1)

\* The producers send no sequence number twice.
DistinctSeqs ==
    \A i, j \in DOMAIN sent :
        (i # j /\ IsOk(sent[i]) /\ IsOk(sent[j])) => sent[i].seq # sent[j].seq

\* C16: if the producers send distinct sequence numbers, the sequence
\* numbers of the chunks returned by Body::next are strictly increasing,
\* whatever errors are returned in between and whatever gap the channel
\* closes with; and no chunk is returned twice.
C16_ReturnedSeqsStrictlyIncrease ==
    kind = "body"
    => /\ DistinctSeqs
          => \A i, j \in DOMAIN ReturnedSeqs : i < j => ReturnedSeqs[i] < ReturnedSeqs[j]
       /\ \A i, j \in DOMAIN returned :
             (i # j /\ IsOk(returned[i]) /\ IsOk(returned[j])) => returned[i].val # returned[j].val

\* C16 witness: chunk 0, an error and chunk 2 were sent and the channel
\* closed without chunk 1; the calls returned chunk 0, the error, chunk 2.
C16_Witness ==
    /\ kind = "body"
    /\ senders = 0
    /\ Len(sent) = 3
    /\ IsOk(sent[1]) /\ sent[1].seq = 0
    /\ IsErr(sent[2])
    /\ IsOk(sent[3]) /\ sent[3].seq = 2
    /\ Len(returned) = 3
    /\ returned[1] = RetOk(1)
    /\ IsErr(returned[2])
    /\ returned[3] = RetOk(3)

\* The number of successful chunks in a sequence of results.
NumOk(q) == Len(SelectSeq(q, IsOk))

\* C17: the successful chunks the Body has received from the channel are
\* those it has returned plus those resident in the Sequencer: none is
\* dropped, none is made up, and a call takes at most one chunk out of the
\* Sequencer, in the step that ends it.  (A call that panics in
\* expect("chunk data") has taken its chunk out and returns nothing; that
\* chunk is the one counted for the panicked state.)
C17_ChunksConserved ==
    /\ [](kind = "body"
          => /\ NumOk(Received)
                  = NumOk(returned) + Len(chunks) + (IF pc = "panicked" THEN 1 ELSE 0)
             /\ \A i \in DOMAIN Received :
                   (IsOk(Received[i]) /\ Received[i].data # NoData)
                   => (Buffered(Received[i].data) \/ Released(Received[i].data))
             /\ \A i \in DOMAIN returned :
                   IsOk(returned[i])
                   => \E j \in DOMAIN Received :
                         IsOk(Received[j]) /\ Received[j].data = returned[i].val
             /\ \A i \in DOMAIN chunks :
                   \E j \in DOMAIN Received : Received[j] = chunks[i])
    /\ [][ (kind = "body" /\ Len(chunks') < Len(chunks))
           => /\ Len(chunks') = Len(chunks) - 1
              /\ pc = "pop"
              /\ pc' \in {"idle", "panicked"} ]_vars

\* C17 witness: three chunks were received, one has been returned and two
\* are resident between calls.
C17_Witness ==
    /\ kind = "body"
    /\ pc = "idle"
    /\ NumOk(Received) = 3
    /\ NumOk(returned) = 1
    /\ Len(chunks) = 2

\* C19: a call of Body::next returns None only with no channel, or with
\* the channel closed and drained, and with the Sequencer empty; no None is
\* returned while a chunk is buffered or a result is queued, and after a
\* None every call returns None.
C19_NoneOnlyAtEndAndForever ==
    /\ []((kind = "body" /\ returned # << >> /\ IsNone(Last(returned)))
          => /\ ~hasChan \/ senders = 0
             /\ chan = << >>
             /\ chunks = << >>)
    /\ [](kind = "body"
          => \A i, j \in DOMAIN returned : (i < j /\ IsNone(returned[i])) => IsNone(returned[j]))
    /\ [][ (kind = "body" /\ Len(returned') = Len(returned) + 1 /\ IsNone(Last(returned')))
           => /\ ~hasChan \/ senders = 0
              /\ chan = << >>
              /\ chunks = << >> ]_vars

\* C19 witness: a Body with a channel returned a chunk, an error, and then
\* None twice.
C19_Witness ==
    /\ kind = "body"
    /\ hasChan
    /\ Len(returned) = 4
    /\ IsOk(returned[1])
    /\ IsErr(returned[2])
    /\ IsNone(returned[3])
    /\ IsNone(returned[4])

\* C20: if the producers send distinct sequence numbers, between calls of
\* Body::next every chunk resident in the Sequencer has seq >= next_seq;
\* a non-empty buffer that is not ready has its smallest seq above
\* next_seq, and some sequence number below that smallest seq has not been
\* received.
C20_NoStaleChunkBuffered ==
    (kind = "body" /\ pc = "idle" /\ DistinctSeqs)
    => /\ \A i \in DOMAIN chunks : chunks[i].seq >= next_seq
       /\ (chunks # << >> /\ ~IsOrdered(chunks, next_seq))
          => /\ MinSeq(chunks) > next_seq
             /\ \E s \in 0..(MinSeq(chunks) - 1) :
                   \A j \in DOMAIN Received : IsOk(Received[j]) => Received[j].seq # s

\* C20 witness: chunk 0, chunk 2 and an error arrived; chunk 0 was returned,
\* then the error, and chunk 2 waits in the buffer with next_seq = 1.
C20_Witness ==
    /\ kind = "body"
    /\ pc = "idle"
    /\ DistinctSeqs
    /\ next_seq = 1
    /\ Len(chunks) = 1
    /\ chunks[1].seq = 2
    /\ Len(returned) = 2
    /\ IsOk(returned[1])
    /\ IsErr(returned[2])

\* The calls so far have returned every part in order and then None.
AllReturnedThenNone ==
    /\ Len(returned) = parts + 1
    /\ \A i \in 1..parts : returned[i] = RetOk(Payload(i - 1))
    /\ IsNone(returned[parts + 1])

\* C18: workers sending concurrently into a bounded channel of capacity
\* >= 1 and a consumer that keeps calling Body::next never block each
\* other for good: until the end of the stream has been returned some step
\* can be taken, and under fair scheduling the calls eventually have
\* returned every chunk and then None.
C18_PoolAndConsumerFinish ==
    /\ [](Len(returned) <= parts => ENABLED PoolNext)
    /\ <>AllReturnedThenNone

\* C18 witness: two workers, a channel of capacity 1 and four parts, chunk 1
\* sent before chunk 0; all four chunks and None have been returned and the
\* channel is closed.
C18_Witness ==
    /\ workers = 2
    /\ cap = 1
    /\ parts = 4
    /\ senders = 0
    /\ Len(sent) = 4
    /\ sent[1].seq = 1
    /\ AllReturnedThenNone

====
